---- MODULE Spec2Model ----
(***************************************************************************)
(* collect_ranked_stats.py: the pipeline that collects a player's ranked   *)
(* matches into a pandas DataFrame, flattens the rune tree, removes        *)
(* unnecessary columns, decodes ids to names, sorts the columns and        *)
(* pickles the frame.                                                      *)
(*                                                                         *)
(* A DataFrame is [columns : ordered column labels, rows : one function    *)
(* label -> cell per row].  A cell is a tagged value: [int |-> n],         *)
(* [str |-> s], [list |-> <<...>>] or NULL (pandas None / NaN).            *)
(* A Python str that the code inspects character by character (regex       *)
(* search, sort order, upper/strip) is looked up in Chars, which gives     *)
(* its characters; Ord gives a character's code point.                     *)
(***************************************************************************)
EXTENDS Integers, Sequences, FiniteSets, TLC

VARIABLES argv, remote, pc, region, summoner, match_ids, idx, data, saved,
          exit_status, error, log

vars == <<argv, remote, pc, region, summoner, match_ids, idx, data, saved,
          exit_status, error, log>>

\* ---------------------------------------------------------------- bounds
\* Longest match list the fetcher returns in the model (the code takes 20).
MaxMatches == 2

\* ---------------------------------------------------------------- values
NULL == [null |-> TRUE]

IntV(n) == [int |-> n]

StrV(s) == [str |-> s]

ListV(l) == [list |-> l]

NONE == [none |-> TRUE]

\* `region` before get_region returned (a str once it has).
NoRegion == <<"unbound">>

\* ------------------------------------------------- Python str as characters
\* The characters of every column label the pipeline can see.
Chars ==
    "basicPings" :> <<"b", "a", "s", "i", "c", "P", "i", "n", "g", "s">>
    @@ "challenges.kda" :> <<"c", "h", "a", "l", "l", "e", "n", "g", "e", "s", ".", "k", "d", "a">>
    @@ "championId" :> <<"c", "h", "a", "m", "p", "i", "o", "n", "I", "d">>
    @@ "championName" :> <<"c", "h", "a", "m", "p", "i", "o", "n", "N", "a", "m", "e">>
    @@ "championTransform" :> <<"c", "h", "a", "m", "p", "i", "o", "n", "T", "r", "a", "n", "s", "f", "o", "r", "m">>
    @@ "eligibleForProgression" :> <<"e", "l", "i", "g", "i", "b", "l", "e", "F", "o", "r", "P", "r", "o", "g", "r", "e", "s", "s", "i", "o", "n">>
    @@ "gameEndedInSurrender" :> <<"g", "a", "m", "e", "E", "n", "d", "e", "d", "I", "n", "S", "u", "r", "r", "e", "n", "d", "e", "r">>
    @@ "goldSpent" :> <<"g", "o", "l", "d", "S", "p", "e", "n", "t">>
    @@ "individualPosition" :> <<"i", "n", "d", "i", "v", "i", "d", "u", "a", "l", "P", "o", "s", "i", "t", "i", "o", "n">>
    @@ "item0" :> <<"i", "t", "e", "m", "0">>
    @@ "item1" :> <<"i", "t", "e", "m", "1">>
    @@ "item2" :> <<"i", "t", "e", "m", "2">>
    @@ "item3" :> <<"i", "t", "e", "m", "3">>
    @@ "item4" :> <<"i", "t", "e", "m", "4">>
    @@ "item5" :> <<"i", "t", "e", "m", "5">>
    @@ "item6" :> <<"i", "t", "e", "m", "6">>
    @@ "itemsPurchased" :> <<"i", "t", "e", "m", "s", "P", "u", "r", "c", "h", "a", "s", "e", "d">>
    @@ "kills" :> <<"k", "i", "l", "l", "s">>
    @@ "lane" :> <<"l", "a", "n", "e">>
    @@ "largestCriticalStrike" :> <<"l", "a", "r", "g", "e", "s", "t", "C", "r", "i", "t", "i", "c", "a", "l", "S", "t", "r", "i", "k", "e">>
    @@ "nexusKills" :> <<"n", "e", "x", "u", "s", "K", "i", "l", "l", "s">>
    @@ "perks.statPerks.defense" :> <<"p", "e", "r", "k", "s", ".", "s", "t", "a", "t", "P", "e", "r", "k", "s", ".", "d", "e", "f", "e", "n", "s", "e">>
    @@ "perks.statPerks.flex" :> <<"p", "e", "r", "k", "s", ".", "s", "t", "a", "t", "P", "e", "r", "k", "s", ".", "f", "l", "e", "x">>
    @@ "perks.statPerks.offense" :> <<"p", "e", "r", "k", "s", ".", "s", "t", "a", "t", "P", "e", "r", "k", "s", ".", "o", "f", "f", "e", "n", "s", "e">>
    @@ "perks.styles" :> <<"p", "e", "r", "k", "s", ".", "s", "t", "y", "l", "e", "s">>
    @@ "profileIcon" :> <<"p", "r", "o", "f", "i", "l", "e", "I", "c", "o", "n">>
    @@ "puuid" :> <<"p", "u", "u", "i", "d">>
    @@ "riotIdName" :> <<"r", "i", "o", "t", "I", "d", "N", "a", "m", "e">>
    @@ "role" :> <<"r", "o", "l", "e">>
    @@ "summoner1Id" :> <<"s", "u", "m", "m", "o", "n", "e", "r", "1", "I", "d">>
    @@ "summoner2Id" :> <<"s", "u", "m", "m", "o", "n", "e", "r", "2", "I", "d">>
    @@ "summonerId" :> <<"s", "u", "m", "m", "o", "n", "e", "r", "I", "d">>
    @@ "summonerLevel" :> <<"s", "u", "m", "m", "o", "n", "e", "r", "L", "e", "v", "e", "l">>
    @@ "summonerName" :> <<"s", "u", "m", "m", "o", "n", "e", "r", "N", "a", "m", "e">>
    @@ "totalUnitsHealed" :> <<"t", "o", "t", "a", "l", "U", "n", "i", "t", "s", "H", "e", "a", "l", "e", "d">>
    @@ "unrealKills" :> <<"u", "n", "r", "e", "a", "l", "K", "i", "l", "l", "s">>
    @@ "win" :> <<"w", "i", "n">>
    @@ "runeKeystone" :> <<"r", "u", "n", "e", "K", "e", "y", "s", "t", "o", "n", "e">>
    @@ "runePrimary1" :> <<"r", "u", "n", "e", "P", "r", "i", "m", "a", "r", "y", "1">>
    @@ "runePrimary2" :> <<"r", "u", "n", "e", "P", "r", "i", "m", "a", "r", "y", "2">>
    @@ "runePrimary3" :> <<"r", "u", "n", "e", "P", "r", "i", "m", "a", "r", "y", "3">>
    @@ "runeSecondary1" :> <<"r", "u", "n", "e", "S", "e", "c", "o", "n", "d", "a", "r", "y", "1">>
    @@ "runeSecondary2" :> <<"r", "u", "n", "e", "S", "e", "c", "o", "n", "d", "a", "r", "y", "2">>
    @@ "runeShardDefense" :> <<"r", "u", "n", "e", "S", "h", "a", "r", "d", "D", "e", "f", "e", "n", "s", "e">>
    @@ "runeShardFlex" :> <<"r", "u", "n", "e", "S", "h", "a", "r", "d", "F", "l", "e", "x">>
    @@ "runeShardOffense" :> <<"r", "u", "n", "e", "S", "h", "a", "r", "d", "O", "f", "f", "e", "n", "s", "e">>

\* Code point of a character (Python compares str by code point).
Ord ==
    " " :> 32 @@ "." :> 46 @@ "0" :> 48 @@ "1" :> 49 @@ "2" :> 50 @@ "3" :> 51
    @@ "4" :> 52 @@ "5" :> 53 @@ "6" :> 54 @@ "7" :> 55 @@ "8" :> 56 @@ "9" :> 57
    @@ "A" :> 65 @@ "B" :> 66 @@ "C" :> 67 @@ "D" :> 68 @@ "E" :> 69 @@ "F" :> 70
    @@ "G" :> 71 @@ "H" :> 72 @@ "I" :> 73 @@ "J" :> 74 @@ "K" :> 75 @@ "L" :> 76
    @@ "M" :> 77 @@ "N" :> 78 @@ "O" :> 79 @@ "P" :> 80 @@ "Q" :> 81 @@ "R" :> 82
    @@ "S" :> 83 @@ "T" :> 84 @@ "U" :> 85 @@ "V" :> 86 @@ "W" :> 87 @@ "X" :> 88
    @@ "Y" :> 89 @@ "Z" :> 90 @@ "a" :> 97 @@ "b" :> 98 @@ "c" :> 99 @@ "d" :> 100
    @@ "e" :> 101 @@ "f" :> 102 @@ "g" :> 103 @@ "h" :> 104 @@ "i" :> 105 @@ "j" :> 106
    @@ "k" :> 107 @@ "l" :> 108 @@ "m" :> 109 @@ "n" :> 110 @@ "o" :> 111 @@ "p" :> 112
    @@ "q" :> 113 @@ "r" :> 114 @@ "s" :> 115 @@ "t" :> 116 @@ "u" :> 117 @@ "v" :> 118
    @@ "w" :> 119 @@ "x" :> 120 @@ "y" :> 121 @@ "z" :> 122

Chr(n) == CHOOSE c \in DOMAIN Ord : Ord[c] = n

\* str.upper() on one character, then on a str.
UpperChar(c) == IF Ord[c] >= 97 /\ Ord[c] <= 122 THEN Chr(Ord[c] - 32) ELSE c

upper(s) == [i \in 1..Len(s) |-> UpperChar(s[i])]

\* The whitespace a typed region argument can carry.
Whitespace == {" "}

\* str.strip(): leading and trailing whitespace removed, inner kept.
RECURSIVE lstrip(_)
lstrip(s) ==
    IF s # <<>> /\ Head(s) \in Whitespace THEN lstrip(Tail(s)) ELSE s

RECURSIVE rstrip(_)
rstrip(s) ==
    IF s # <<>> /\ s[Len(s)] \in Whitespace
    THEN rstrip(SubSeq(s, 1, Len(s) - 1))
    ELSE s

strip(s) == rstrip(lstrip(s))

\* Python's str ordering: by code point at the first position where the
\* two differ, a proper prefix first.
RECURSIVE LessFrom(_, _, _)
LessFrom(a, b, k) ==
    IF k > Len(b) THEN FALSE
    ELSE IF k > Len(a) THEN TRUE
    ELSE IF a[k] = b[k] THEN LessFrom(a, b, k + 1)
    ELSE Ord[a[k]] < Ord[b[k]]

StrLess(a, b) == LessFrom(a, b, 1)

\* ------------------------------------------------------------------ regex
\* A regex is a set of alternatives; an alternative is a sequence of atoms
\* [set : the characters the atom accepts, star : zero-or-more].
AnyChar == DOMAIN Ord

Digit == {"0", "1", "2", "3", "4", "5", "6", "7", "8", "9"}

Lit(s) == [i \in 1..Len(s) |-> [set |-> {s[i]}, star |-> FALSE]]

Star(cs) == <<[set |-> cs, star |-> TRUE]>>

One(cs) == <<[set |-> cs, star |-> FALSE]>>

\* Whether atoms[k..] match some prefix of s[i..] (re.match at position i).
RECURSIVE MatchFrom(_, _, _, _)
MatchFrom(atoms, k, s, i) ==
    IF k > Len(atoms) THEN TRUE
    ELSE IF atoms[k].star
         THEN \/ MatchFrom(atoms, k + 1, s, i)
              \/ /\ i <= Len(s)
                 /\ s[i] \in atoms[k].set
                 /\ MatchFrom(atoms, k, s, i + 1)
         ELSE /\ i <= Len(s)
              /\ s[i] \in atoms[k].set
              /\ MatchFrom(atoms, k + 1, s, i + 1)

\* re.search(regex, label): a match starting anywhere in the label.
Search(regex, label) ==
    \E alt \in regex : \E i \in 1..(Len(Chars[label]) + 1) :
        MatchFrom(alt, 1, Chars[label], i)

\* '.*challenge*', '.*Ping*', '.*riot*', '.*nexus*', '.*gameEnded*'
RegexChallenge ==
    {Star(AnyChar) \o Lit(<<"c", "h", "a", "l", "l", "e", "n", "g">>) \o Star({"e"})}

RegexPing == {Star(AnyChar) \o Lit(<<"P", "i", "n">>) \o Star({"g"})}

RegexRiot == {Star(AnyChar) \o Lit(<<"r", "i", "o">>) \o Star({"t"})}

RegexNexus == {Star(AnyChar) \o Lit(<<"n", "e", "x", "u">>) \o Star({"s"})}

RegexGameEnded ==
    {Star(AnyChar) \o Lit(<<"g", "a", "m", "e", "E", "n", "d", "e">>) \o Star({"d"})}

regexes == <<RegexChallenge, RegexPing, RegexRiot, RegexNexus, RegexGameEnded>>

\* r'item\d'
RegexItem == {Lit(<<"i", "t", "e", "m">>) \o One(Digit)}

\* r'summoner([1-2])Id'
RegexSummonerSpell ==
    {Lit(<<"s", "u", "m", "m", "o", "n", "e", "r">>) \o One({"1", "2"})
        \o Lit(<<"I", "d">>)}

\* r'rune((Keystone)|(Primary)|(Secondary))'
RegexRune ==
    { Lit(<<"r", "u", "n", "e", "K", "e", "y", "s", "t", "o", "n", "e">>),
      Lit(<<"r", "u", "n", "e", "P", "r", "i", "m", "a", "r", "y">>),
      Lit(<<"r", "u", "n", "e", "S", "e", "c", "o", "n", "d", "a", "r", "y">>) }

\* r'runeShard*'
RegexShard == {Lit(<<"r", "u", "n", "e", "S", "h", "a", "r">>) \o Star({"d"})}

\* ------------------------------------------------------------- DataFrame
EmptyFrame == [columns |-> <<>>, rows |-> <<>>]

Range(s) == {s[i] : i \in 1..Len(s)}

RECURSIVE SelectSeq2(_, _)
\* The elements of s that are in the set keep, in order.
SelectSeq2(s, keep) ==
    IF s = <<>> THEN <<>>
    ELSE (IF Head(s) \in keep THEN <<Head(s)>> ELSE <<>>)
             \o SelectSeq2(Tail(s), keep)

Ok(df) == [ok |-> TRUE, df |-> df]

Raise(err) == [ok |-> FALSE, err |-> err]

\* concat_rows with the new rows put in front of the old ones.
concat_rows_prepend(df, other) ==
    LET cols == df.columns \o SelectSeq2(other.columns,
                                         Range(other.columns) \ Range(df.columns))
        fill(row) == [c \in Range(cols) |->
                         IF c \in DOMAIN row THEN row[c] ELSE NULL]
    IN [columns |-> cols,
        rows |-> [i \in 1..(Len(df.rows) + Len(other.rows)) |->
                     IF i <= Len(other.rows)
                     THEN fill(other.rows[i])
                     ELSE fill(df.rows[i - Len(other.rows)])]]

\* pd.concat([data, other], ignore_index=True): rows appended in order, the
\* columns are data's followed by other's new ones, missing cells are NaN.
concat_rows(df, other) ==
    LET cols == df.columns \o SelectSeq2(other.columns,
                                         Range(other.columns) \ Range(df.columns))
        fill(row) == [c \in Range(cols) |->
                         IF c \in DOMAIN row THEN row[c] ELSE NULL]
    IN [columns |-> cols,
        rows |-> [i \in 1..(Len(df.rows) + Len(other.rows)) |->
                     IF i <= Len(df.rows)
                     THEN fill(df.rows[i])
                     ELSE fill(other.rows[i - Len(df.rows)])]]

\* DataFrame.drop(columns=labels): KeyError when a label is not a column.
drop(df, labels) ==
    IF ~(labels \subseteq Range(df.columns))
    THEN Raise("KeyError")
    ELSE Ok([columns |-> SelectSeq2(df.columns, Range(df.columns) \ labels),
             rows |-> [i \in 1..Len(df.rows) |->
                          [c \in Range(df.columns) \ labels |-> df.rows[i][c]]]])

\* list(df.filter(regex=regex)): the labels re.search matches.
filter(df, regex) == {c \in Range(df.columns) : Search(regex, c)}

\* DataFrame.rename(columns=new_names): labels not in the frame are ignored.
rename(df, new_names) ==
    LET new(c) == IF c \in DOMAIN new_names THEN new_names[c] ELSE c
        old(n) == CHOOSE c \in Range(df.columns) : new(c) = n
    IN [columns |-> [i \in 1..Len(df.columns) |-> new(df.columns[i])],
        rows |-> [i \in 1..Len(df.rows) |->
                     [n \in {new(c) : c \in Range(df.columns)} |->
                         df.rows[i][old(n)]]]]

\* The labels in ascending str order, by insertion (the labels of a frame
\* are distinct here, so the order among equal labels does not matter).
Insert(sorted, x) ==
    LET later == {i \in 1..Len(sorted) : StrLess(Chars[x], Chars[sorted[i]])}
        at == IF later = {} THEN Len(sorted) + 1
              ELSE CHOOSE i \in later : \A j \in later : i <= j
    IN SubSeq(sorted, 1, at - 1) \o <<x>> \o SubSeq(sorted, at, Len(sorted))

RECURSIVE SortLabels(_, _)
SortLabels(labels, k) ==
    IF k = 0 THEN <<>> ELSE Insert(SortLabels(labels, k - 1), labels[k])

\* DataFrame.sort_index(axis=1): the columns in ascending label order.
sort_index(df) ==
    [columns |-> SortLabels(df.columns, Len(df.columns)), rows |-> df.rows]

\* ------------------------------------------------------- pd.json_normalize
Entry(k, v) == [k |-> k, v |-> v]

DictV(entries) == [dict |-> entries]

IsDict(v) == "dict" \in DOMAIN v

IsList(v) == "list" \in DOMAIN v

\* The nested part of a record, flattened with '.'-joined keys, in order.
RECURSIVE Flatten(_, _)
Flatten(entries, prefix) ==
    IF entries = <<>> THEN <<>>
    ELSE LET e == Head(entries)
             key == IF prefix = "" THEN e.k ELSE prefix \o "." \o e.k
         IN (IF IsDict(e.v) THEN Flatten(e.v.dict, key)
                            ELSE <<Entry(key, e.v)>>)
                \o Flatten(Tail(entries), prefix)

\* pd.json_normalize(player) of one dict: a one-row frame; the top-level
\* scalar keys come first, then the nested dicts flattened; lists stay cells.
json_normalize(player) ==
    LET top == SelectSeq(player, LAMBDA e : ~IsDict(e.v))
        nested == Flatten(SelectSeq(player, LAMBDA e : IsDict(e.v)), "")
        flat == top \o nested
    IN [columns |-> [i \in 1..Len(flat) |-> flat[i].k],
        rows |-> << [c \in {flat[i].k : i \in 1..Len(flat)} |->
                       (CHOOSE e \in Range(flat) : e.k = c).v] >>]

\* pd.json_normalize(series) of a Series whose cells are lists (or NaN): one
\* row per cell, one column per list position, short rows padded with None.
\* A NaN cell normalises to {} and counts as an empty row, unless it is the
\* first cell: then the frame is built from mappings and a list cell has no
\* keys() (AttributeError).
json_normalize_lists(cells) ==
    LET len(i) == IF IsList(cells[i]) THEN Len(cells[i].list) ELSE 0
        width == IF cells = <<>> THEN 0
                 ELSE CHOOSE w \in {len(i) : i \in 1..Len(cells)} :
                          \A i \in 1..Len(cells) : len(i) <= w
    IN IF /\ cells # <<>>
          /\ ~IsList(cells[1])
          /\ \E i \in 1..Len(cells) : IsList(cells[i])
       THEN Raise("AttributeError")
       ELSE [ok |-> TRUE, width |-> width,
             rows |-> [i \in 1..Len(cells) |->
                          [k \in 1..width |->
                              IF k <= len(i) THEN cells[i].list[k] ELSE NULL]]]

\* pd.json_normalize(series)[key] of a Series whose cells are dicts (or
\* None): the key of each dict, NaN for None; KeyError when no cell has it.
json_normalize_dicts(cells, key) ==
    IF \A i \in 1..Len(cells) : key \notin DOMAIN cells[i]
    THEN Raise("KeyError")
    ELSE [ok |-> TRUE,
          series |-> [i \in 1..Len(cells) |->
                         IF key \in DOMAIN cells[i] THEN cells[i][key] ELSE NULL]]

\* frame[k] for a frame with positional columns 0..width-1.
positional(table, k) ==
    IF k >= table.width
    THEN Raise("KeyError")
    ELSE [ok |-> TRUE,
          series |-> [i \in 1..Len(table.rows) |-> table.rows[i][k + 1]]]

\* pd.json_normalize(frame[k])['perk']
perk_of(table, k) ==
    LET cell == positional(table, k)
    IN IF ~cell.ok THEN cell ELSE json_normalize_dicts(cell.series, "perk")

\* pd.json_normalize(pd.json_normalize(perks[k])['selections'])
selections_of(perks, k) ==
    LET style == positional(perks, k)
    IN IF ~style.ok THEN style
       ELSE LET sel == json_normalize_dicts(style.series, "selections")
            IN IF ~sel.ok THEN sel ELSE json_normalize_lists(sel.series)

\* concat_columns with the Series aligned on the wrong rows (reversed).
concat_columns_misaligned(df, names, series) ==
    [columns |-> df.columns \o names,
     rows |-> [i \in 1..Len(df.rows) |->
                  [c \in Range(df.columns) \cup Range(names) |->
                      IF c \in Range(names)
                      THEN series[CHOOSE j \in 1..Len(names) : names[j] = c]
                                 [Len(df.rows) + 1 - i]
                      ELSE df.rows[i][c]]]]

\* pd.concat([data, series...], axis=1): the named Series become columns,
\* aligned on the row index.
concat_columns(df, names, series) ==
    [columns |-> df.columns \o names,
     rows |-> [i \in 1..Len(df.rows) |->
                  [c \in Range(df.columns) \cup Range(names) |->
                      IF c \in Range(names)
                      THEN series[CHOOSE j \in 1..Len(names) : names[j] = c][i]
                      ELSE df.rows[i][c]]]]

RuneNames == <<"runeKeystone", "runePrimary1", "runePrimary2", "runePrimary3",
               "runeSecondary1", "runeSecondary2">>

get_runes(df) ==
    IF "perks.styles" \notin Range(df.columns) THEN Raise("KeyError")
    ELSE
    LET perks == json_normalize_lists(
                     [i \in 1..Len(df.rows) |-> df.rows[i]["perks.styles"]])
    IN IF ~perks.ok THEN perks
    ELSE
    LET primary == selections_of(perks, 0)
    IN IF ~primary.ok THEN primary
    ELSE
    LET prim == [k \in 0..3 |-> perk_of(primary, k)]
    IN IF \E k \in 0..3 : ~prim[k].ok THEN Raise("KeyError")
    ELSE
    LET secondary == selections_of(perks, 1)
    IN IF ~secondary.ok THEN secondary
    ELSE
    LET sec == [k \in 0..1 |-> perk_of(secondary, k)]
    IN IF \E k \in 0..1 : ~sec[k].ok THEN Raise("KeyError")
    ELSE Ok(concat_columns(df, RuneNames,
                <<prim[0].series, prim[1].series, prim[2].series,
                  prim[3].series, sec[0].series, sec[1].series>>))

\* ------------------------------------------------------------ the stages
new_names ==
    "perks.statPerks.defense" :> "runeShardDefense"
    @@ "perks.statPerks.flex" :> "runeShardFlex"
    @@ "perks.statPerks.offense" :> "runeShardOffense"

rename_shard_columns(df) == rename(df, new_names)

DenyList ==
    {"perks.styles", "unrealKills", "totalUnitsHealed", "summonerId",
     "summonerLevel", "summonerName", "role", "puuid", "profileIcon",
     "largestCriticalStrike", "lane", "itemsPurchased", "individualPosition",
     "goldSpent", "eligibleForProgression", "championTransform", "championId"}

\* data = data.drop(list(data.filter(regex=regex)), axis=1); return data:
\* a new frame without the matching columns; the argument is not changed.
filter_data(df, regex) == drop(df, filter(df, regex)).df

\* The loop calls filter_data(data, regex) for each regex and does not keep
\* what it returns, so `data` is still the frame the deny-list drop produced.
RECURSIVE filter_loop(_, _)
filter_loop(df, k) ==
    IF k > Len(regexes) THEN df
    ELSE LET discarded == filter_data(df, regexes[k])
         IN filter_loop(df, k + 1)

remove_unnecessary_info(df) ==
    LET dropped == drop(df, DenyList)
    IN IF ~dropped.ok THEN dropped ELSE Ok(filter_loop(dropped.df, 1))

\* lol_id_tools.get_name(id, object_type=...): the injected resolver; an id
\* it does not know resolves to no name.
ItemNames == 1001 :> "Boots" @@ 3006 :> "Berserker's Greaves"

SpellNames == 4 :> "Flash" @@ 14 :> "Ignite"

RuneNameTable ==
    8005 :> "Press the Attack" @@ 9111 :> "Triumph"
    @@ 9104 :> "Legend: Alacrity" @@ 8014 :> "Coup de Grace"
    @@ 8143 :> "Sudden Impact" @@ 8135 :> "Treasure Hunter"

lookup(table, cell) ==
    IF "int" \in DOMAIN cell /\ cell.int \in DOMAIN table
    THEN StrV(table[cell.int])
    ELSE NULL

\* lit.get_name(id, object_type=object_type)
get_name(cell, object_type) ==
    CASE object_type = "item" -> lookup(ItemNames, cell)
      [] object_type = "summoner_spell" -> lookup(SpellNames, cell)
      [] object_type = "rune" -> lookup(RuneNameTable, cell)

translations ==
    5001 :> "Health" @@ 5002 :> "Armor" @@ 5003 :> "Magic Resist"
    @@ 5005 :> "Attack Speed" @@ 5007 :> "Ability Haste"
    @@ 5008 :> "Adaptive Force"

\* translations.get(shard)
translate_shard(cell) == lookup(translations, cell)

\* The lambda a decoder hands to applymap, named by what it looks up.
apply_lambda(kind, cell) ==
    IF kind = "shard" THEN translate_shard(cell) ELSE get_name(cell, kind)

\* data[cols] = data[cols].applymap(lambda): every cell of the columns
\* cols, cell by cell; the other columns are untouched.
applymap(df, cols, kind) ==
    [columns |-> df.columns,
     rows |-> [i \in 1..Len(df.rows) |->
                  [c \in Range(df.columns) |->
                      IF c \in cols THEN apply_lambda(kind, df.rows[i][c])
                      ELSE df.rows[i][c]]]]

decode_items(df) == applymap(df, filter(df, RegexItem), "item")

decode_summoner_spells(df) ==
    applymap(df, filter(df, RegexSummonerSpell), "summoner_spell")

decode_runes(df) == applymap(df, filter(df, RegexRune), "rune")

\* decode_shards decoding a row's shards all-or-nothing: one unknown shard
\* id makes every shard field of the row null.
decode_shards_all_or_nothing(df) ==
    LET cols == filter(df, RegexShard)
        bad(i) == \E c \in cols : translate_shard(df.rows[i][c]) = NULL
    IN [columns |-> df.columns,
        rows |-> [i \in 1..Len(df.rows) |->
                     [c \in Range(df.columns) |->
                         IF c \in cols
                         THEN (IF bad(i) THEN NULL
                               ELSE translate_shard(df.rows[i][c]))
                         ELSE df.rows[i][c]]]]

decode_shards(df) == applymap(df, filter(df, RegexShard), "shard")

\* sort_data that returns the frame as it got it.
sort_data_unsorted(df) == df

sort_data(df) == sort_index(df)

\* ------------------------------------------------------------ the inputs
Selection(perk) == [perk |-> IntV(perk), var1 |-> IntV(0)]

Style(description, perks, style) ==
    [description |-> StrV(description),
     selections |-> ListV([i \in 1..Len(perks) |-> Selection(perks[i])]),
     style |-> IntV(style)]

PrimaryStyle(perks) == Style("primaryStyle", perks, 8000)

SubStyle(perks) == Style("subStyle", perks, 8100)

\* One participant block of a match (a ParticipantDto as a dict, in the
\* provider's key order).  challenges, unrealKills and championTransform
\* are fields that some records lack.
Player(puuid, kills, items, spells, shards, styles, lacks) ==
    LET all ==
        << Entry("basicPings", IntV(3)),
           Entry("challenges", DictV(<<Entry("kda", IntV(2))>>)),
           Entry("championId", IntV(22)),
           Entry("championName", StrV("Ashe")),
           Entry("championTransform", IntV(0)),
           Entry("eligibleForProgression", StrV("True")),
           Entry("gameEndedInSurrender", StrV("False")),
           Entry("goldSpent", IntV(9000)),
           Entry("individualPosition", StrV("BOTTOM")),
           Entry("item0", IntV(items[1])),
           Entry("item1", IntV(items[2])),
           Entry("item2", IntV(items[3])),
           Entry("item3", IntV(items[4])),
           Entry("item4", IntV(items[5])),
           Entry("item5", IntV(items[6])),
           Entry("item6", IntV(items[7])),
           Entry("itemsPurchased", IntV(12)),
           Entry("kills", IntV(kills)),
           Entry("lane", StrV("BOTTOM")),
           Entry("largestCriticalStrike", IntV(0)),
           Entry("nexusKills", IntV(1)),
           Entry("perks", DictV(<<
               Entry("statPerks", DictV(<<
                   Entry("defense", IntV(shards[1])),
                   Entry("flex", IntV(shards[2])),
                   Entry("offense", IntV(shards[3])) >>)),
               Entry("styles", ListV(styles)) >>)),
           Entry("profileIcon", IntV(7)),
           Entry("puuid", StrV(puuid)),
           Entry("riotIdName", StrV("Zenith")),
           Entry("role", StrV("CARRY")),
           Entry("summoner1Id", IntV(spells[1])),
           Entry("summoner2Id", IntV(spells[2])),
           Entry("summonerId", StrV("s-" \o puuid)),
           Entry("summonerLevel", IntV(30)),
           Entry("summonerName", StrV("Zenith")),
           Entry("totalUnitsHealed", IntV(1)),
           Entry("unrealKills", IntV(0)),
           Entry("win", StrV("True")) >>
    IN SelectSeq(all, LAMBDA e : e.k \notin lacks)

Primary4 == <<8005, 9111, 9104, 8014>>

Secondary2 == <<8143, 8135>>

WellFormed == <<PrimaryStyle(Primary4), SubStyle(Secondary2)>>

\* Another participant of the same match: never the tracked player.
Other(puuid) ==
    Player(puuid, 99, <<3006, 3006, 3006, 3006, 3006, 3006, 3006>>,
           <<14, 14>>, <<5003, 5003, 5003>>,
           <<PrimaryStyle(<<8135, 8135, 8135, 8135>>),
             SubStyle(<<8005, 8005>>)>>, {})

\* A match as watcher.match.by_id returns it: metadata.participants (the
\* puuids) and info.participants (the blocks), in the same order.
Match(puuids, blocks) ==
    [metadata |-> [participants |-> puuids], info |-> [participants |-> blocks]]

Tracked == "p1"

Catalogue ==
    "M1" :> Match(<<"p2", "p1">>,
                  <<Other("p2"),
                    Player("p1", 1, <<1001, 0, 0, 0, 0, 0, 3006>>, <<4, 14>>,
                           <<5002, 5008, 5005>>, WellFormed, {})>>)
    @@ "M2" :> Match(<<"p1", "p2">>,
                  <<Player("p1", 2, <<3006, 1001, 0, 0, 0, 0, 0>>, <<14, 4>>,
                           <<9999, 5001, 5007>>,
                           <<PrimaryStyle(<<9111, 8005, 7777, 9104>>),
                             SubStyle(<<8135, 8143>>)>>, {"challenges"}),
                    Other("p2")>>)
    \* the primary branch has 3 selections
    @@ "M3" :> Match(<<"p1", "p2">>,
                  <<Player("p1", 3, <<1001, 0, 0, 0, 0, 0, 0>>, <<4, 14>>,
                           <<5001, 5002, 5003>>,
                           <<PrimaryStyle(<<8005, 9111, 9104>>),
                             SubStyle(Secondary2)>>, {}),
                    Other("p2")>>)
    \* the primary branch has 5 selections
    @@ "M4" :> Match(<<"p2", "p1">>,
                  <<Other("p2"),
                    Player("p1", 4, <<1001, 0, 0, 0, 0, 0, 0>>, <<4, 14>>,
                           <<5001, 5002, 5003>>,
                           <<PrimaryStyle(<<8005, 9111, 9104, 8014, 8143>>),
                             SubStyle(Secondary2)>>, {})>>)
    \* three branches
    @@ "M5" :> Match(<<"p1", "p2">>,
                  <<Player("p1", 5, <<1001, 0, 0, 0, 0, 0, 0>>, <<4, 14>>,
                           <<5001, 5002, 5003>>,
                           <<PrimaryStyle(Primary4), SubStyle(Secondary2),
                             SubStyle(<<8014, 9104>>)>>, {}),
                    Other("p2")>>)
    \* one branch
    @@ "M6" :> Match(<<"p1", "p2">>,
                  <<Player("p1", 6, <<1001, 0, 0, 0, 0, 0, 0>>, <<4, 14>>,
                           <<5001, 5002, 5003>>,
                           <<PrimaryStyle(Primary4)>>, {}),
                    Other("p2")>>)
    \* the secondary branch has 1 selection
    @@ "M7" :> Match(<<"p1", "p2">>,
                  <<Player("p1", 7, <<1001, 0, 0, 0, 0, 0, 0>>, <<4, 14>>,
                           <<5001, 5002, 5003>>,
                           <<PrimaryStyle(Primary4), SubStyle(<<8143>>)>>, {}),
                    Other("p2")>>)
    \* the secondary branch has 3 selections
    @@ "M8" :> Match(<<"p1", "p2">>,
                  <<Player("p1", 8, <<1001, 0, 0, 0, 0, 0, 0>>, <<4, 14>>,
                           <<5001, 5002, 5003>>,
                           <<PrimaryStyle(Primary4),
                             SubStyle(<<8143, 8135, 8014>>)>>, {}),
                    Other("p2")>>)
    \* the tracked player is not among the participants
    @@ "M9" :> Match(<<"p2", "p3">>, <<Other("p2"), Other("p3")>>)
    \* a record without unrealKills and championTransform
    @@ "M10" :> Match(<<"p1", "p2">>,
                  <<Player("p1", 10, <<0, 0, 0, 0, 0, 0, 0>>, <<4, 14>>,
                           <<5005, 5005, 5005>>, WellFormed,
                           {"unrealKills", "championTransform"}),
                    Other("p2")>>)

MatchIds == DOMAIN Catalogue

\* The match lists the fetcher can return: distinct ids, at most MaxMatches.
MatchLists ==
    UNION { {s \in [1..n -> MatchIds] : \A i, j \in 1..n : i # j => s[i] # s[j]} :
            n \in 0..MaxMatches }

valid_regions ==
    { <<"B", "R", "1">>, <<"E", "U", "N", "1">>, <<"E", "U", "W", "1">>,
      <<"J", "P", "1">>, <<"K", "R">>, <<"L", "A", "1">>, <<"L", "A", "2">>,
      <<"N", "A", "1">>, <<"O", "C", "1">>, <<"P", "H", "2">>, <<"R", "U">>,
      <<"S", "G", "2">>, <<"T", "H", "2">>, <<"T", "R", "1">>,
      <<"T", "W", "2">>, <<"V", "N", "2">> }

\* Region arguments a user can type.
RegionInputs ==
    { <<"N", "A", "1">>, <<"n", "a", "1">>, <<" ", "k", "r", " ">>,
      <<"X", "X", "9">>, <<"N", " ", "A", "1">>, <<"N", "A">>, <<>> }

Program == "collect_ranked_stats.py"

ArgvInputs ==
    {<<Program, r, "Zenith">> : r \in RegionInputs}
        \cup {<<Program, <<"N", "A", "1">> >>}

\* What the stats provider answers: the player lookup and the match list.
RemoteInputs ==
    [by_name : {"found", "404", "error"}, matchlist : MatchLists]

\* ------------------------------------------------------------------ state
Init ==
    /\ argv \in ArgvInputs
    /\ remote \in RemoteInputs
    /\ pc = "check_user_input"
    /\ region = NoRegion
    /\ summoner = NONE
    /\ match_ids = <<>>
    /\ idx = 0
    /\ data = EmptyFrame
    /\ saved = NONE
    /\ exit_status = 0
    /\ error = "none"
    /\ log = <<>>

\* sys.exit(2)
Exit2 ==
    /\ pc' = "exited"
    /\ exit_status' = 2

\* An uncaught exception ends the process with a traceback (status 1).
Abort(err) ==
    /\ pc' = "failed"
    /\ error' = err
    /\ exit_status' = 1

check_user_input ==
    /\ pc = "check_user_input"
    /\ IF Len(argv) # 3
       THEN Exit2
       ELSE pc' = "get_region" /\ exit_status' = exit_status
    /\ UNCHANGED <<argv, remote, region, summoner, match_ids, idx, data,
                   saved, error, log>>

\* The region check without upper().
region_accepted_no_upper(r) == strip(r) \in valid_regions

\* region.upper().strip() in valid_regions
region_accepted(r) == strip(upper(r)) \in valid_regions

get_region ==
    /\ pc = "get_region"
    /\ IF region_accepted(argv[2])
       THEN /\ region' = argv[2]
            /\ pc' = "get_summoner"
            /\ exit_status' = exit_status
       ELSE /\ Exit2
            /\ region' = region
    /\ UNCHANGED <<argv, remote, summoner, match_ids, idx, data, saved,
                   error, log>>

get_summoner ==
    /\ pc = "get_summoner"
    /\ log' = Append(log, <<"by_name", 0>>)
    /\ CASE remote.by_name = "found" ->
              /\ summoner' = [puuid |-> Tracked, name |-> argv[3]]
              /\ pc' = "get_last_20_match_ids"
              /\ UNCHANGED <<exit_status, error>>
         [] remote.by_name = "404" ->
              /\ Exit2
              /\ UNCHANGED <<summoner, error>>
         [] OTHER ->
              \* any other ApiError is swallowed and `summoner` is unbound
              /\ Abort("UnboundLocalError")
              /\ UNCHANGED summoner
    /\ UNCHANGED <<argv, remote, region, match_ids, idx, data, saved>>

get_last_20_match_ids ==
    /\ pc = "get_last_20_match_ids"
    /\ match_ids' = remote.matchlist
    /\ log' = Append(log, <<"matchlist", 0>>)
    /\ pc' = "collect_data"
    /\ data' = EmptyFrame
    /\ idx' = 0
    /\ UNCHANGED <<argv, remote, region, summoner, saved, exit_status, error>>

\* match['metadata']['participants'].index(puuid): 0-based, ValueError
\* when the puuid is not in the list.
HasPlayer(match, puuid) == puuid \in Range(match.metadata.participants)

get_player_index(puuid, match) ==
    (CHOOSE i \in 1..Len(match.metadata.participants) :
        /\ match.metadata.participants[i] = puuid
        /\ \A j \in 1..(i - 1) : match.metadata.participants[j] # puuid) - 1

get_player_from_index(match, index) == match.info.participants[index + 1]

\* The loop iteration skipping a match that lacks the player instead of
\* raising.
collect_match_skip ==
    /\ pc = "collect_data"
    /\ idx < Len(match_ids)
    /\ LET match == Catalogue[match_ids[idx + 1]]
       IN IF ~HasPlayer(match, summoner.puuid)
          THEN /\ idx' = idx + 1
               /\ log' = Append(log, <<"by_id", idx + 1>>)
               /\ UNCHANGED <<data, pc, exit_status, error>>
          ELSE LET player == get_player_from_index(match,
                                 get_player_index(summoner.puuid, match))
               IN /\ data' = concat_rows(data, json_normalize(player))
                  /\ idx' = idx + 1
                  /\ log' = log \o << <<"by_id", idx + 1>>,
                                      <<"get_player_index", idx + 1>>,
                                      <<"json_normalize", idx + 1>> >>
                  /\ UNCHANGED <<pc, exit_status, error>>
    /\ UNCHANGED <<argv, remote, region, summoner, match_ids, saved>>

\* One iteration of the loop of collect_data.
collect_match ==
    /\ pc = "collect_data"
    /\ idx < Len(match_ids)
    /\ LET match == Catalogue[match_ids[idx + 1]]
       IN IF ~HasPlayer(match, summoner.puuid)
          THEN /\ Abort("ValueError")
               /\ log' = log \o << <<"by_id", idx + 1>>,
                                   <<"get_player_index", idx + 1>> >>
               /\ UNCHANGED <<data, idx>>
          ELSE LET player == get_player_from_index(match,
                                 get_player_index(summoner.puuid, match))
               IN /\ data' = concat_rows(data, json_normalize(player))
                  /\ idx' = idx + 1
                  /\ log' = log \o << <<"by_id", idx + 1>>,
                                      <<"get_player_index", idx + 1>>,
                                      <<"json_normalize", idx + 1>> >>
                  /\ UNCHANGED <<pc, exit_status, error>>
    /\ UNCHANGED <<argv, remote, region, summoner, match_ids, saved>>

\* get_runes run inside the loop, as soon as one match has been collected.
collect_get_runes_early ==
    /\ pc = "collect_data"
    /\ idx = Len(match_ids) \/ idx >= 1
    /\ log' = Append(log, <<"get_runes", 0>>)
    /\ LET r == get_runes(data)
       IN IF r.ok
          THEN /\ data' = r.df
               /\ pc' = "rename_shard_columns"
               /\ UNCHANGED <<exit_status, error>>
          ELSE /\ Abort(r.err)
               /\ data' = data
    /\ UNCHANGED <<argv, remote, region, summoner, match_ids, idx, saved>>

\* After the loop: data = get_runes(data); return data
collect_get_runes ==
    /\ pc = "collect_data"
    /\ idx = Len(match_ids)
    /\ log' = Append(log, <<"get_runes", 0>>)
    /\ LET r == get_runes(data)
       IN IF r.ok
          THEN /\ data' = r.df
               /\ pc' = "rename_shard_columns"
               /\ UNCHANGED <<exit_status, error>>
          ELSE /\ Abort(r.err)
               /\ data' = data
    /\ UNCHANGED <<argv, remote, region, summoner, match_ids, idx, saved>>

do_rename_shard_columns ==
    /\ pc = "rename_shard_columns"
    /\ data' = rename_shard_columns(data)
    /\ log' = Append(log, <<"rename_shard_columns", 0>>)
    /\ pc' = "remove_unnecessary_info"
    /\ UNCHANGED <<argv, remote, region, summoner, match_ids, idx, saved,
                   exit_status, error>>

do_remove_unnecessary_info ==
    /\ pc = "remove_unnecessary_info"
    /\ log' = Append(log, <<"remove_unnecessary_info", 0>>)
    /\ LET r == remove_unnecessary_info(data)
       IN IF r.ok
          THEN /\ data' = r.df
               /\ pc' = "decode_items"
               /\ UNCHANGED <<exit_status, error>>
          ELSE /\ Abort(r.err)
               /\ data' = data
    /\ UNCHANGED <<argv, remote, region, summoner, match_ids, idx, saved>>

do_decode_items ==
    /\ pc = "decode_items"
    /\ data' = decode_items(data)
    /\ log' = Append(log, <<"decode_items", 0>>)
    /\ pc' = "decode_summoner_spells"
    /\ UNCHANGED <<argv, remote, region, summoner, match_ids, idx, saved,
                   exit_status, error>>

do_decode_summoner_spells ==
    /\ pc = "decode_summoner_spells"
    /\ data' = decode_summoner_spells(data)
    /\ log' = Append(log, <<"decode_summoner_spells", 0>>)
    /\ pc' = "decode_runes"
    /\ UNCHANGED <<argv, remote, region, summoner, match_ids, idx, saved,
                   exit_status, error>>

do_decode_runes ==
    /\ pc = "decode_runes"
    /\ data' = decode_runes(data)
    /\ log' = Append(log, <<"decode_runes", 0>>)
    /\ pc' = "decode_shards"
    /\ UNCHANGED <<argv, remote, region, summoner, match_ids, idx, saved,
                   exit_status, error>>

do_decode_shards ==
    /\ pc = "decode_shards"
    /\ data' = decode_shards(data)
    /\ log' = Append(log, <<"decode_shards", 0>>)
    /\ pc' = "sort_data"
    /\ UNCHANGED <<argv, remote, region, summoner, match_ids, idx, saved,
                   exit_status, error>>

do_sort_data ==
    /\ pc = "sort_data"
    /\ data' = sort_data(data)
    /\ log' = Append(log, <<"sort_data", 0>>)
    /\ pc' = "save_data_to_pickle"
    /\ UNCHANGED <<argv, remote, region, summoner, match_ids, idx, saved,
                   exit_status, error>>

save_data_to_pickle ==
    /\ pc = "save_data_to_pickle"
    /\ saved' = [name |-> summoner.name, data |-> data]
    /\ log' = Append(log, <<"save_data_to_pickle", 0>>)
    /\ pc' = "done"
    /\ UNCHANGED <<argv, remote, region, summoner, match_ids, idx, data,
                   exit_status, error>>

Next ==
    \/ check_user_input
    \/ get_region
    \/ get_summoner
    \/ get_last_20_match_ids
    \/ collect_match
    \/ collect_get_runes
    \/ do_rename_shard_columns
    \/ do_remove_unnecessary_info
    \/ do_decode_items
    \/ do_decode_summoner_spells
    \/ do_decode_runes
    \/ do_decode_shards
    \/ do_sort_data
    \/ save_data_to_pickle

Spec == Init /\ [][Next]_vars

\* ================================================================ claims
\* The tracked player's block of a catalogue match, and the row it makes.
TrackedBlock(id) ==
    LET m == Catalogue[id]
    IN m.info.participants[
           CHOOSE k \in 1..Len(m.metadata.participants) :
               m.metadata.participants[k] = Tracked]

RowOf(id) == json_normalize(TrackedBlock(id)).rows[1]

DictGet(entries, key) == (CHOOSE e \in Range(entries) : e.k = key).v

\* The fixed rune-tree shape: 2 branches, 4 primary and 2 secondary selections.
FixedShape(styles) ==
    /\ Len(styles) = 2
    /\ Len(styles[1].selections.list) = 4
    /\ Len(styles[2].selections.list) = 2

\* A column label some pattern category matches.
Patterned(c) == \E k \in 1..Len(regexes) : Search(regexes[k], c)

\* C1: once remove_unnecessary_info has run on a batch, no column label of
\* the returned frame matches any of the five pattern categories.
C1_NoPatternColumnRemains ==
    pc = "decode_items" => \A c \in Range(data.columns) : ~Patterned(c)

ItemFields == {"item0", "item1", "item2", "item3", "item4", "item5", "item6"}

SpellFields == {"summoner1Id", "summoner2Id"}

RuneFields == Range(RuneNames)

ShardFields == {"runeShardDefense", "runeShardFlex", "runeShardOffense"}

\* The field group and the id table of each decoding stage.
DecodeStage ==
    "decode_items" :> [fields |-> ItemFields, table |-> ItemNames]
    @@ "decode_summoner_spells" :> [fields |-> SpellFields, table |-> SpellNames]
    @@ "decode_runes" :> [fields |-> RuneFields, table |-> RuneNameTable]
    @@ "decode_shards" :> [fields |-> ShardFields, table |-> translations]

\* A resolvable id became its name, anything else an explicit null.
Decoded(table, before, after) ==
    IF "int" \in DOMAIN before /\ before.int \in DOMAIN table
    THEN after = StrV(table[before.int])
    ELSE after = NULL

\* What one step of a decoding stage does to the frame.
DecodeStep ==
    pc \in DOMAIN DecodeStage =>
        /\ pc' # "failed"
        /\ data'.columns = data.columns
        /\ DecodeStage[pc].fields \subseteq Range(data.columns)
        /\ Len(data'.rows) = Len(data.rows)
        /\ \A i \in 1..Len(data.rows) : \A c \in Range(data.columns) :
              IF c \in DecodeStage[pc].fields
              THEN Decoded(DecodeStage[pc].table,
                           data.rows[i][c], data'.rows[i][c])
              ELSE data'.rows[i][c] = data.rows[i][c]

\* C2: every decoding stage completes without raising; in every row each
\* field of the stage's group holds the name of a resolvable id and null
\* for an unresolvable one, whatever the other fields of the row or the
\* other rows hold, and every field outside the group is left as it was.
C2_DecodingFieldLocal == [][DecodeStep]_vars

\* A decoded batch with the item slots [1001, 0, 0, 0, 0, 0, 3006] of one row
\* and, in another row, an unknown shard (9999) beside known ones.
C2_Witness ==
    /\ pc = "sort_data"
    /\ \E i, j \in 1..Len(data.rows) :
          /\ data.rows[i]["item0"] = StrV("Boots")
          /\ \A c \in {"item1", "item2", "item3", "item4", "item5"} :
                data.rows[i][c] = NULL
          /\ data.rows[i]["item6"] = StrV("Berserker's Greaves")
          /\ data.rows[i]["runeShardOffense"] = StrV("Attack Speed")
          /\ data.rows[j]["runeShardDefense"] = NULL
          /\ data.rows[j]["runeShardFlex"] = StrV("Health")
          /\ data.rows[j]["runePrimary2"] = NULL
          /\ data.rows[j]["runePrimary1"] = StrV("Press the Attack")

\* C3: get_runes fails whenever some participant of the batch has a rune
\* tree that is not of the fixed shape, so a batch that came out of
\* get_runes holds only trees of the fixed shape.
C3_MalformedTreeFails ==
    pc = "rename_shard_columns" =>
        \A i \in 1..Len(data.rows) :
            FixedShape(data.rows[i]["perks.styles"].list)

\* The tracked player is not among the participants of the k-th match.
AbsentAt(k) ==
    Tracked \notin Range(Catalogue[remote.matchlist[k]].metadata.participants)

\* C4: when the tracked player is absent from some match of the list, the
\* loop never gets past that match, no later stage runs and nothing is
\* ever saved.
C4_AbsentPlayerAborts ==
    \A k \in 1..Len(remote.matchlist) :
        AbsentAt(k) =>
            /\ idx < k
            /\ saved = NONE
            /\ pc \in {"check_user_input", "get_region", "get_summoner",
                       "get_last_20_match_ids", "collect_data", "exited",
                       "failed"}

\* The run aborted on an absent player after a row had been collected.
C4_Witness ==
    /\ pc = "failed"
    /\ error = "ValueError"
    /\ idx = 1
    /\ Len(data.rows) = 1
    /\ AbsentAt(2)
    /\ saved = NONE

\* r is the valid code v up to letter case and surrounding whitespace.
EquivalentTo(r, v) ==
    \E a \in 0..Len(r) :
        /\ a + Len(v) <= Len(r)
        /\ \A k \in 1..a : r[k] \in Whitespace
        /\ \A k \in 1..Len(v) : UpperChar(r[a + k]) = v[k]
        /\ \A k \in (a + Len(v) + 1)..Len(r) : r[k] \in Whitespace

Acceptable(r) == \E v \in valid_regions : EquivalentTo(r, v)

\* C5: a region argument is accepted exactly when, trimmed and upper-cased,
\* it is one of the 16 valid codes ('na1' is, 'XX9' is not); a rejected
\* region ends the process with a non-zero status before any fetcher call
\* and with nothing saved.
C5_RegionValidation ==
    (Len(argv) = 3 /\ pc \notin {"check_user_input", "get_region"}) =>
        /\ Cardinality(valid_regions) = 16
        /\ argv[2] = <<"n", "a", "1">> => region = argv[2]
        /\ argv[2] = <<"X", "X", "9">> => region = NoRegion
        /\ IF Acceptable(argv[2])
           THEN region = argv[2]
           ELSE /\ region = NoRegion
                /\ pc = "exited"
                /\ exit_status # 0
                /\ log = <<>>
                /\ saved = NONE

\* A run with the lower-case region 'na1' that went through to the end.
C5_Witness ==
    /\ pc = "done"
    /\ argv[2] = <<"n", "a", "1">>
    /\ region = argv[2]

\* C6: remove_unnecessary_info completes on every collected batch, also on
\* one that lacks a deny-listed column, and returns every column that is
\* neither deny-listed nor matched by a pattern with its label and values.
C6_NormalizeTotal ==
    pc = "remove_unnecessary_info" =>
        LET r == remove_unnecessary_info(data)
        IN /\ r.ok
           /\ \A c \in Range(data.columns) \ DenyList :
                  ~Patterned(c) =>
                      /\ c \in Range(r.df.columns)
                      /\ \A i \in 1..Len(data.rows) :
                             r.df.rows[i][c] = data.rows[i][c]

\* C7: remove_unnecessary_info applied to its own output succeeds and
\* returns the same columns and the same values.
C7_NormalizeIdempotent ==
    pc = "decode_items" =>
        LET again == remove_unnecessary_info(data)
        IN again.ok /\ again.df = data

\* The row is the flattened block of the tracked player in match id.
BuiltFrom(row, id) ==
    \A c \in DOMAIN RowOf(id) : c \in DOMAIN row /\ row[c] = RowOf(id)[c]

\* C8: while and after the matches are collected the batch has one row per
\* match reference processed, row i built from the i-th reference's
\* tracked participant; when collect_data returns without a fatal error
\* that is one row per reference of the list, in the list's order.
C8_OneRowPerMatchInOrder ==
    /\ pc = "collect_data" =>
          /\ Len(data.rows) = idx
          /\ \A i \in 1..idx : BuiltFrom(data.rows[i], match_ids[i])
    /\ pc = "rename_shard_columns" =>
          /\ Len(data.rows) = Len(match_ids)
          /\ \A i \in 1..Len(match_ids) :
                BuiltFrom(data.rows[i], match_ids[i])

\* collect_data returned a batch of two matches.
C8_Witness ==
    /\ pc = "rename_shard_columns"
    /\ Len(match_ids) >= 2
    /\ Len(data.rows) = Len(match_ids)
    /\ data.rows[1]["kills"] # data.rows[2]["kills"]

\* The labels are in strictly ascending str order.
Ascending(cols) ==
    \A k \in 1..(Len(cols) - 1) : StrLess(Chars[cols[k]], Chars[cols[k + 1]])

\* The stages that ran, in the order they ran (the fetcher calls and the
\* per-match steps of the loop left out).
StagesRun ==
    SelectSeq(log, LAMBDA e : e[1] \notin {"by_name", "matchlist", "by_id",
                                           "get_player_index",
                                           "json_normalize"})

\* Every per-match step of the loop is logged before get_runes.
LoopBeforeStages ==
    \A i, j \in 1..Len(log) :
        (log[i][1] \in {"by_id", "get_player_index", "json_normalize"}
             /\ log[j][1] = "get_runes")
            => i < j

\* C9: the frame handed to save_data_to_pickle has its columns in strictly
\* ascending order, and the stages ran in the order collect, normalize,
\* decode, sort, persist.
C9_SortedAfterDecode ==
    saved # NONE =>
        /\ Ascending(saved.data.columns)
        /\ LoopBeforeStages
        /\ StagesRun = << <<"get_runes", 0>>, <<"rename_shard_columns", 0>>,
                          <<"remove_unnecessary_info", 0>>,
                          <<"decode_items", 0>>,
                          <<"decode_summoner_spells", 0>>,
                          <<"decode_runes", 0>>, <<"decode_shards", 0>>,
                          <<"sort_data", 0>>, <<"save_data_to_pickle", 0>> >>

\* A batch of two matches was saved, the appended rune columns sorted in.
C9_Witness ==
    /\ pc = "done"
    /\ Len(saved.data.rows) >= 2
    /\ saved.data.columns[Len(saved.data.columns)] = "win"
    /\ "runeKeystone" \in Range(saved.data.columns)

\* The label starts with 'rune'.
IsRuneLabel(c) ==
    Len(Chars[c]) >= 4 /\ SubSeq(Chars[c], 1, 4) = <<"r", "u", "n", "e">>

\* C10: after get_runes and rename_shard_columns, the row of every
\* participant whose rune tree has the fixed shape has exactly the nine
\* rune fields, holding that participant's own primary selections 0..3,
\* secondary selections 0..1 and defense, flex and offense shard ids.
C10_RuneFields ==
    pc = "remove_unnecessary_info" =>
        \A i \in 1..Len(data.rows) :
            LET perks == DictGet(TrackedBlock(match_ids[i]), "perks").dict
                styles == DictGet(perks, "styles").list
                stat == DictGet(perks, "statPerks").dict
                row == data.rows[i]
                primary == styles[1].selections.list
                secondary == styles[2].selections.list
            IN FixedShape(styles) =>
                /\ {c \in DOMAIN row : IsRuneLabel(c)}
                       = RuneFields \cup ShardFields
                /\ Cardinality(RuneFields \cup ShardFields) = 9
                /\ row["runeKeystone"] = primary[1].perk
                /\ row["runePrimary1"] = primary[2].perk
                /\ row["runePrimary2"] = primary[3].perk
                /\ row["runePrimary3"] = primary[4].perk
                /\ row["runeSecondary1"] = secondary[1].perk
                /\ row["runeSecondary2"] = secondary[2].perk
                /\ row["runeShardDefense"] = DictGet(stat, "defense")
                /\ row["runeShardFlex"] = DictGet(stat, "flex")
                /\ row["runeShardOffense"] = DictGet(stat, "offense")

\* Runes were unpacked for a batch of two participants with different
\* runes, both of the fixed shape.
C10_Witness ==
    /\ pc = "remove_unnecessary_info"
    /\ Len(data.rows) = 2
    /\ \A i \in 1..2 : FixedShape(data.rows[i]["perks.styles"].list)
    /\ data.rows[1]["runeKeystone"] # data.rows[2]["runeKeystone"]
    /\ data.rows[1]["runeShardDefense"] # data.rows[2]["runeShardDefense"]

\* The per-match steps of the loop, in the order they were logged.
LoopSteps ==
    SelectSeq(log, LAMBDA e : e[1] \in {"by_id", "get_player_index",
                                        "json_normalize"})

\* The steps of the first n matches, each match fetched, its participant
\* extracted and flattened before the next one is fetched.
RECURSIVE StepsOf(_)
StepsOf(n) ==
    IF n = 0 THEN <<>>
    ELSE StepsOf(n - 1) \o << <<"by_id", n>>, <<"get_player_index", n>>,
                              <<"json_normalize", n>> >>

IsPrefix(a, b) == Len(a) <= Len(b) /\ SubSeq(b, 1, Len(a)) = a

====
